---- MODULE Spec2Model ----
(***************************************************************************)
(* The two hello-world example scripts of reifydb's Python binding:        *)
(*   pkg/python/examples/hello-world/main.py          (query 'select ...') *)
(*   pkg/python/reifydb/examples/hello-world/main.py  (query 'map ...')    *)
(*                                                                         *)
(* Each script is a straight line of statements:                           *)
(*   imports; db = Embedded(); r = db.tx(<literal>);                       *)
(*   print(tabulate(r[0]['rows'], headers=r[0]['headers']))                *)
(*                                                                         *)
(* The model runs two processes (two runs) side by side.  The library the  *)
(* scripts call is the environment: importing it and constructing the      *)
(* client either work or raise, and db.tx is a deterministic function of   *)
(* the query string whose value is drawn the first time a query is asked.  *)
(***************************************************************************)
EXTENDS Integers, Sequences, FiniteSets, TLC

\* Largest number of elements in a response of db.tx.
MaxResp == 2

\* The two runs that are put side by side.
Runs == 1..2

\* The two copies of the script, named by their query keyword.
Scripts == {"select", "map"}

\* The query literal of each copy.
Query(s) == IF s = "select" THEN "select 1, 1 + 4" ELSE "map 1, 1 + 4"

(***************************************************************************)
(* Python values returned by the engine.  A list is tagged "list" and      *)
(* carries its items; a value that cannot be iterated is tagged "int".     *)
(***************************************************************************)
PyList(items) == [type |-> "list", items |-> items]
PyInt == [type |-> "int", items |-> <<>>]

\* Response elements: mappings, with or without the keys the script reads.
Elements ==
  { [rows |-> PyList(<< <<1, 5>> >>), headers |-> <<"1", "1 + 4">>],
    [rows |-> PyList(<< <<2, 6>>, <<3, 7>> >>), headers |-> <<"b">>],
    [rows |-> PyList(<< >>), headers |-> <<"1", "1 + 4">>],
    [rows |-> PyInt, headers |-> <<"1", "1 + 4">>],
    [rows |-> PyList(<< <<1, 5>> >>)],
    [headers |-> <<"1", "1 + 4">>] }

RECURSIVE SeqsUpTo(_, _)
SeqsUpTo(S, n) ==
  IF n = 0 THEN {<< >>}
  ELSE LET shorter == SeqsUpTo(S, n - 1)
       IN  shorter \cup {Append(q, e) : q \in shorter, e \in S}

\* What db.tx can return: a sequence of elements.
Responses == SeqsUpTo(Elements, MaxResp)

\* What a call of db.tx can do: return a response or raise.
TxOutcomes ==
  {[raised |-> FALSE, value |-> v] : v \in Responses}
    \cup {[raised |-> TRUE, value |-> << >>]}

(***************************************************************************)
(* tabulate(rows, headers=headers), default format, as a sequence of       *)
(* lines, each line the sequence of its cells: the header line, a line of  *)
(* dashes, then one line per row with every value converted to text.       *)
(* Headers fewer than the columns are padded in front with empty labels.   *)
(***************************************************************************)
NumCols(rows, headers) ==
  IF rows = << >> THEN Len(headers)
  ELSE IF Len(rows[1]) > Len(headers) THEN Len(rows[1]) ELSE Len(headers)

PadHeaders(headers, n) ==
  [c \in 1..n |->
     IF c <= n - Len(headers) THEN "" ELSE headers[c - (n - Len(headers))]]

Tabulate(rows, headers) ==
  LET n == NumCols(rows, headers)
      head == PadHeaders(headers, n)
      rule == [c \in 1..n |-> "---"]
      body == [k \in 1..Len(rows) |->
                 [c \in 1..n |->
                    IF c <= Len(rows[k]) THEN ToString(rows[k][c]) ELSE ""]]
  IN  << head, rule >> \o body

\* tabulate raises on tabular data that is not iterable.
TabulateRaises(rows) == rows.type # "list"

(***************************************************************************)
(* The argument of print, evaluated left to right as Python does:          *)
(* r[0], then ['rows'], then r[0]['headers'], then the call of tabulate.   *)
(***************************************************************************)
FirstMutLast(resp) == resp[Len(resp)]

\* r[0]
First(resp) == resp[1]

FormatError(resp) ==
  IF Len(resp) = 0 THEN "IndexError"
  ELSE IF "rows" \notin DOMAIN First(resp) THEN "KeyError"
  ELSE IF "headers" \notin DOMAIN First(resp) THEN "KeyError"
  ELSE IF TabulateRaises(First(resp).rows) THEN "TypeError"
  ELSE "none"

FormatTextMutNoHeaders(resp) == Tabulate(First(resp).rows.items, << >>)

FormatText(resp) == Tabulate(First(resp).rows.items, First(resp).headers)

VARIABLES
  script,   \* script[i]: which copy run i executes
  lib,      \* the installed library: does import work, does Embedded() work
  engine,   \* db.tx as a function of the query, on the queries asked so far
  pc,       \* pc[i]: the statement run i executes next
  db,       \* db[i]: TRUE once the name db is bound to a client handle
  r,        \* r[i]: the name r, unbound or bound to a response
  txt,      \* txt[i]: the value of tabulate(...) handed to print
  out,      \* out[i]: what run i has written to standard output
  err,      \* err[i]: the uncaught exception that ended run i, or "none"
  trace     \* trace[i]: the calls run i has made, in order

vars == << script, lib, engine, pc, db, r, txt, out, err, trace >>

Unbound == [bound |-> FALSE, value |-> << >>]
Bound(v) == [bound |-> TRUE, value |-> v]

Call(op, args) == [op |-> op, args |-> args]

Init ==
  /\ script \in [Runs -> Scripts]
  /\ lib \in [import : BOOLEAN, ctor : BOOLEAN]
  /\ engine = << >>
  /\ pc = [i \in Runs |-> "import"]
  /\ db = [i \in Runs |-> FALSE]
  /\ r = [i \in Runs |-> Unbound]
  /\ txt = [i \in Runs |-> << >>]
  /\ out = [i \in Runs |-> << >>]
  /\ err = [i \in Runs |-> "none"]
  /\ trace = [i \in Runs |-> << >>]

\* An uncaught exception: the process ends, nothing else is touched.
Raise(i, e) ==
  /\ pc' = [pc EXCEPT ![i] = "error"]
  /\ err' = [err EXCEPT ![i] = e]

\* from reifydb import Embedded; from tabulate import tabulate
Import(i) ==
  /\ pc[i] = "import"
  /\ IF lib.import
       THEN pc' = [pc EXCEPT ![i] = "ctor"] /\ UNCHANGED err
       ELSE Raise(i, "ImportError")
  /\ UNCHANGED << script, lib, engine, db, r, txt, out, trace >>

\* db = Embedded()
Construct(i) ==
  /\ pc[i] = "ctor"
  /\ trace' = [trace EXCEPT ![i] = Append(@, Call("Embedded", << >>))]
  /\ IF lib.ctor
       THEN /\ db' = [db EXCEPT ![i] = TRUE]
            /\ pc' = [pc EXCEPT ![i] = "tx"]
            /\ UNCHANGED err
       ELSE /\ Raise(i, "EngineError")
            /\ UNCHANGED db
  /\ UNCHANGED << script, lib, engine, r, txt, out >>

\* The engine answers query q with outcome o: the answer it gave before, or
\* a new one that it will give again.
Ask(q, o) ==
  /\ q \in DOMAIN engine => o = engine[q]
  /\ engine' = IF q \in DOMAIN engine THEN engine
               ELSE [x \in DOMAIN engine \cup {q} |->
                       IF x = q THEN o ELSE engine[x]]

\* Tx with an error handler that swallows the exception and carries on.
TxMutSwallow(i) ==
  /\ pc[i] = "tx"
  /\ db[i]
  /\ LET q == Query(script[i]) IN
     /\ trace' = [trace EXCEPT ![i] = Append(@, Call("tx", << q >>))]
     /\ \E o \in TxOutcomes :
          /\ Ask(q, o)
          /\ r' = [r EXCEPT ![i] = Bound(o.value)]
          /\ pc' = [pc EXCEPT ![i] = "format"]
          /\ err' = [err EXCEPT ![i] = IF o.raised THEN "EngineError" ELSE @]
  /\ UNCHANGED << script, lib, db, txt, out >>

\* Tx that submits the query a second time.
TxMutTwice(i) ==
  /\ pc[i] = "tx"
  /\ db[i]
  /\ LET q == Query(script[i]) IN
     /\ trace' = [trace EXCEPT ![i] =
                    Append(Append(@, Call("tx", << q >>)), Call("tx", << q >>))]
     /\ \E o \in TxOutcomes :
          /\ Ask(q, o)
          /\ IF o.raised
               THEN Raise(i, "EngineError") /\ UNCHANGED r
               ELSE /\ r' = [r EXCEPT ![i] = Bound(o.value)]
                    /\ pc' = [pc EXCEPT ![i] = "format"]
                    /\ UNCHANGED err
  /\ UNCHANGED << script, lib, db, txt, out >>

\* Tx that waits for the engine to stop raising instead of failing.
TxMutWait(i) ==
  /\ pc[i] = "tx"
  /\ db[i]
  /\ LET q == Query(script[i]) IN
     \E o \in TxOutcomes :
          /\ Ask(q, o)
          /\ IF o.raised
               THEN UNCHANGED << pc, err, r, trace >>
               ELSE /\ r' = [r EXCEPT ![i] = Bound(o.value)]
                    /\ pc' = [pc EXCEPT ![i] = "format"]
                    /\ trace' = [trace EXCEPT ![i] =
                                   Append(@, Call("tx", << q >>))]
                    /\ UNCHANGED err
  /\ UNCHANGED << script, lib, db, txt, out >>

\* r = db.tx('<literal>')
Tx(i) ==
  /\ pc[i] = "tx"
  /\ db[i]
  /\ LET q == Query(script[i]) IN
     /\ trace' = [trace EXCEPT ![i] = Append(@, Call("tx", << q >>))]
     /\ \E o \in TxOutcomes :
          /\ Ask(q, o)
          /\ IF o.raised
               THEN Raise(i, "EngineError") /\ UNCHANGED r
               ELSE /\ r' = [r EXCEPT ![i] = Bound(o.value)]
                    /\ pc' = [pc EXCEPT ![i] = "format"]
                    /\ UNCHANGED err
  /\ UNCHANGED << script, lib, db, txt, out >>

\* The argument of print evaluated on response resp: the indexing, the key
\* lookups and the call of tabulate, any of which may raise.
FormatFrom(i, resp) ==
  /\ pc[i] = "format"
  /\ LET e == FormatError(resp)
     IN  IF e = "none"
           THEN /\ txt' = [txt EXCEPT ![i] = FormatText(resp)]
                /\ trace' = [trace EXCEPT ![i] =
                               Append(@, Call("tabulate", << >>))]
                /\ pc' = [pc EXCEPT ![i] = "print"]
                /\ UNCHANGED err
           ELSE /\ Raise(i, e)
                /\ trace' = [trace EXCEPT ![i] =
                               IF e = "TypeError"
                                 THEN Append(@, Call("tabulate", << >>))
                                 ELSE @]
                /\ UNCHANGED txt
  /\ UNCHANGED << script, lib, engine, db, r, out >>

\* Format where the 'map' copy reads r[1] instead of r[0].
FormatMutDiverge(i) ==
  FormatFrom(i, IF script[i] = "map" /\ Len(r[i].value) > 0
                  THEN Tail(r[i].value) ELSE r[i].value)

\* tabulate(r[0]['rows'], headers=r[0]['headers'])
Format(i) == FormatFrom(i, r[i].value)

\* PrintTable that writes the table twice.
PrintTableMutTwice(i) ==
  /\ pc[i] = "print"
  /\ out' = [out EXCEPT ![i] = Append(Append(@, txt[i]), txt[i])]
  /\ trace' = [trace EXCEPT ![i] =
                 Append(Append(@, Call("print", << >>)), Call("print", << >>))]
  /\ pc' = [pc EXCEPT ![i] = "done"]
  /\ UNCHANGED << script, lib, engine, db, r, txt, err >>

\* PrintTable that adds a line counting the runs that printed before it.
PrintTableMutCounter(i) ==
  /\ pc[i] = "print"
  /\ LET before == Cardinality({j \in Runs : pc[j] = "done"})
     IN  out' = [out EXCEPT ![i] =
                   Append(@, Append(txt[i], << ToString(before) >>))]
  /\ trace' = [trace EXCEPT ![i] = Append(@, Call("print", << >>))]
  /\ pc' = [pc EXCEPT ![i] = "done"]
  /\ UNCHANGED << script, lib, engine, db, r, txt, err >>

\* print(...)
PrintTable(i) ==
  /\ pc[i] = "print"
  /\ out' = [out EXCEPT ![i] = Append(@, txt[i])]
  /\ trace' = [trace EXCEPT ![i] = Append(@, Call("print", << >>))]
  /\ pc' = [pc EXCEPT ![i] = "done"]
  /\ UNCHANGED << script, lib, engine, db, r, txt, err >>

Step(i) == Import(i) \/ Construct(i) \/ Tx(i) \/ Format(i) \/ PrintTable(i)

Next == \E i \in Runs : Step(i)

Spec == Init /\ [][Next]_vars

\* Every call returns or raises: a run that can take a step takes it.
FairSpec == Spec /\ \A i \in Runs : WF_vars(Step(i))

TypeOK ==
  /\ script \in [Runs -> Scripts]
  /\ pc \in [Runs -> {"import", "ctor", "tx", "format", "print", "done", "error"}]
  /\ db \in [Runs -> BOOLEAN]
  /\ \A i \in Runs : r[i].bound => r[i].value \in Responses

(***************************************************************************)
(* Vocabulary of the properties.                                           *)
(***************************************************************************)
Ops(i) == [k \in 1..Len(trace[i]) |-> trace[i][k].op]

IsPrefix(s, t) ==
  /\ Len(s) <= Len(t)
  /\ \A k \in 1..Len(s) : s[k] = t[k]

Terminated(i) == pc[i] \in {"done", "error"}

HasTable(e) == "rows" \in DOMAIN e /\ "headers" \in DOMAIN e

Cells(line) == {line[c] : c \in 1..Len(line)}

\* C1: in every run the calls occur in the fixed order Embedded, tx, (tabulate,)
\* print, each at most once, and nothing is printed before tx has returned a
\* response.
C1_CallOrder ==
  \A i \in Runs :
    /\ IsPrefix(Ops(i), << "Embedded", "tx", "tabulate", "print" >>)
    /\ Len(out[i]) <= 1
    /\ (out[i] # << >> \/ pc[i] \in {"print", "done"}) =>
         /\ r[i].bound
         /\ Len(trace[i]) >= 2
         /\ trace[i][2].op = "tx"

C1_Witness ==
  \E i \in Runs :
    /\ pc[i] = "done"
    /\ Ops(i) = << "Embedded", "tx", "tabulate", "print" >>
    /\ Len(out[i]) = 1

C3_SameScriptSameOutput ==
  \A i, j \in Runs :
    ( /\ script[i] = script[j]
      /\ Terminated(i)
      /\ Terminated(j) ) =>
        /\ out[i] = out[j]
        /\ err[i] = err[j]

C3_Witness ==
  /\ script[1] = script[2]
  /\ pc[1] = "done"
  /\ pc[2] = "done"
  /\ out[1] # << >>
  /\ out[1] = out[2]

\* What a run owns: everything but the library and the engine.
Frozen(i) ==
  /\ pc'[i] = pc[i]
  /\ err'[i] = err[i]
  /\ db'[i] = db[i]
  /\ r'[i] = r[i]
  /\ txt'[i] = txt[i]
  /\ out'[i] = out[i]
  /\ trace'[i] = trace[i]

AtMostOnce(t, op) == Cardinality({k \in 1..Len(t) : t[k].op = op}) <= 1

\* C4: an error raised by Embedded(), db.tx or the formatter ends the run:
\* the run is in its error state with nothing printed, no call was made
\* twice, and the run never takes another step.
C4_ErrorsEndTheRun ==
  [][\A i \in Runs :
       /\ err[i] # "none" => Frozen(i)
       /\ err'[i] # "none" =>
            /\ pc'[i] = "error"
            /\ out'[i] = << >>
            /\ \A op \in {"Embedded", "tx", "tabulate", "print"} :
                 AtMostOnce(trace'[i], op)
            /\ \A k \in 1..Len(trace'[i]) : trace'[i][k].op # "print"]_vars

C4_Witness ==
  \E i, j \in Runs :
    /\ err[i] = "EngineError"
    /\ db[i]
    /\ ~r[i].bound
    /\ out[i] = << >>
    /\ err[j] = "TypeError"
    /\ out[j] = << >>

\* C5: the handle is created once by Embedded() without arguments and used
\* for one tx call whose query is the literal of the script; no other
\* operation is ever issued on it.
C5_HandleUsedOnce ==
  \A i \in Runs :
    LET OnHandle(c) == c.op \in {"Embedded", "tx"}
        lit == IF script[i] = "select" THEN "select 1, 1 + 4"
               ELSE "map 1, 1 + 4"
    IN  /\ IsPrefix(SelectSeq(trace[i], OnHandle),
                    << [op |-> "Embedded", args |-> << >>],
                       [op |-> "tx", args |-> << lit >>] >>)
        /\ db[i] => Len(trace[i]) >= 1 /\ trace[i][1].op = "Embedded"
        /\ pc[i] \in {"format", "print", "done"} =>
             Len(SelectSeq(trace[i], OnHandle)) = 2

C5_Witness ==
  \E i \in Runs :
    /\ pc[i] = "done"
    /\ db[i]
    /\ Len(trace[i]) = 4
    /\ trace[i][2] = [op |-> "tx", args |-> << "map 1, 1 + 4" >>]

\* The engine gives every query asked so far the same answer.
EngineAgrees ==
  \A q1, q2 \in DOMAIN engine : engine[q1] = engine[q2]

\* C6: the 'select' copy and the 'map' copy, run against an engine that
\* answers both queries alike, make the same calls in the same order, end
\* the same way and print the same text; their calls differ in the query
\* text only.
C6_CopiesEquivalent ==
  \A i, j \in Runs :
    ( /\ script[i] # script[j]
      /\ Terminated(i)
      /\ Terminated(j)
      /\ EngineAgrees ) =>
        /\ pc[i] = pc[j]
        /\ err[i] = err[j]
        /\ out[i] = out[j]
        /\ Len(trace[i]) = Len(trace[j])
        /\ \A k \in 1..Len(trace[i]) :
             /\ trace[i][k].op = trace[j][k].op
             /\ trace[i][k].op # "tx" => trace[i][k] = trace[j][k]

C6_Witness ==
  /\ script[1] = "select"
  /\ script[2] = "map"
  /\ pc[1] = "done"
  /\ pc[2] = "done"
  /\ Cardinality(DOMAIN engine) = 2
  /\ EngineAgrees
  /\ Len(r[1].value) = 2
  /\ out[1] # << >>
  /\ out[1] = out[2]

Finished(i) ==
  \/ pc[i] = "done" /\ Len(out[i]) = 1 /\ err[i] = "none"
  \/ pc[i] = "error" /\ out[i] = << >> /\ err[i] # "none"

\* C7: when every call returns or raises, every run ends, and stays ended,
\* either having printed the table once or in an uncaught error with nothing
\* printed.
C7_Terminates == <>[](\A i \in Runs : Finished(i))

C7_Witness ==
  \E i, j \in Runs :
    /\ Finished(i)
    /\ Finished(j)
    /\ pc[i] = "done"
    /\ pc[j] = "error"
    /\ err[j] = "EngineError"
    /\ db[j]

\* C8: the script reads element 0 of the response only.  An empty response
\* ends the run in IndexError, a first element without 'rows' or without
\* 'headers' in KeyError, in both cases with nothing printed; and two runs
\* whose responses have the same first element end the same way and print
\* the same text, whatever follows the first element.
C8_OnlyIndexZero ==
  /\ \A i \in Runs :
       (Terminated(i) /\ r[i].bound) =>
          /\ Len(r[i].value) = 0 =>
               pc[i] = "error" /\ err[i] = "IndexError" /\ out[i] = << >>
          /\ (Len(r[i].value) > 0 /\ ~HasTable(r[i].value[1])) =>
               pc[i] = "error" /\ err[i] = "KeyError" /\ out[i] = << >>
  /\ \A i, j \in Runs :
       ( /\ Terminated(i) /\ r[i].bound /\ Len(r[i].value) > 0
         /\ Terminated(j) /\ r[j].bound /\ Len(r[j].value) > 0
         /\ r[i].value[1] = r[j].value[1] ) =>
            /\ out[i] = out[j]
            /\ err[i] = err[j]

C8_Witness ==
  \E i, j \in Runs :
    /\ pc[i] = "done"
    /\ Len(r[i].value) = 2
    /\ ~HasTable(r[i].value[2])
    /\ out[i] # << >>
    /\ Terminated(j)
    /\ r[j].bound
    /\ Len(r[j].value) = 1
    /\ r[j].value[1] = r[i].value[1]
    /\ out[j] = out[i]
====
